---------------------------- MODULE Spec2Model ----------------------------
(***************************************************************************)
(* Sales Analytics Dashboard (src/app.py): the two loaders                 *)
(* load_sales_data and load_sku_data, calculate_metrics, and main()'s      *)
(* filters and five tabs, as a state machine over the session's data.      *)
(*                                                                         *)
(* A cell of a table is one of                                             *)
(*   NaN        a missing value (a blank CSV cell, NaN, None, NaT)         *)
(*   Num(n)     a number                                                   *)
(*   Str(s)     a text cell (a label, or text that may or may not parse)   *)
(*   Date(y,m,d) a parsed timestamp                                        *)
(*   Txt(c)     a string built by the program, as its sequence of          *)
(*              characters (the YEAR_MONTH period strings, which pandas    *)
(*              orders lexicographically)                                  *)
(*   Ratio(s,n) the float s / n, kept exact (a mean)                       *)
(* A sales frame is [cols: set of names, rows: sequence of name -> cell];  *)
(* a SKU frame keeps its columns as a sequence, because renaming can give  *)
(* two columns the same name.                                              *)
(***************************************************************************)
EXTENDS Integers, Sequences, FiniteSets, TLC

VARIABLES
    sales_file,       \* the uploaded sales table as read_csv returns it, or NoFile
    sku_file,         \* the uploaded SKU table, or NoFile
    df_sales,         \* what load_sales_data returned (the st.cache_data entry)
    df_sku,           \* what load_sku_data returned
    date_range,       \* the date_input widget's value: a tuple of 0, 1 or 2 dates
    selected_reps,    \* the "Sales Reps" multiselect's value
    selected_status,  \* the "Status" multiselect's value
    top_n,            \* the "Show Top N" slider of the Sales Reps tab
    page,             \* what the last run of main() computed
    shown_before      \* observer: the rows the run before the last one showed

vars == <<sales_file, sku_file, df_sales, df_sku, date_range, selected_reps,
          selected_status, top_n, page, shown_before>>

---------------------------------------------------------------------------
(* Bounds of the model *)

\* rows of a table handed to a loader
MaxLoadRows == 2
\* rows of a sales table uploaded to the dashboard
MaxRows == 3
\* rows of a sales table uploaded for the ranking views
MaxRankRows == 8
\* the largest slider position explored (the slider itself goes to 30)
MaxTopN == 6

---------------------------------------------------------------------------
(* Cells *)

NaN == [k |-> "nan"]
Num(n) == [k |-> "num", n |-> n]
Str(s) == [k |-> "str", s |-> s]
Date(y, m, d) == [k |-> "date", y |-> y, m |-> m, d |-> d]
Txt(c) == [k |-> "txt", c |-> c]
Ratio(s, n) == [k |-> "ratio", s |-> s, n |-> n]

IsNull(cell) == cell.k = "nan"

NoFile == [k |-> "none"]
NotLoaded == [k |-> "none"]
Raised(exc, where) == [k |-> "raised", exc |-> exc, at |-> where]

RECURSIVE SumSeq(_)
SumSeq(s) == IF s = <<>> THEN 0 ELSE Head(s) + SumSeq(Tail(s))

Range(s) == {s[i] : i \in 1..Len(s)}

\* the subsequences of s (its elements kept in order) of at most n elements
RECURSIVE SubSeqsUpTo(_, _)
SubSeqsUpTo(s, n) ==
    IF s = <<>> \/ n = 0 THEN {<<>>}
    ELSE SubSeqsUpTo(Tail(s), n)
         \cup {<<Head(s)>> \o t : t \in SubSeqsUpTo(Tail(s), n - 1)}

\* the sequences over S of at most n elements
RECURSIVE SeqsUpTo(_, _)
SeqsUpTo(S, n) ==
    IF n = 0 THEN {<<>>}
    ELSE SeqsUpTo(S, n - 1)
         \cup {<<x>> \o t : x \in S, t \in {u \in SeqsUpTo(S, n - 1) : Len(u) = n - 1}}

---------------------------------------------------------------------------
(* pandas conversions *)

\* the numerals the model's text cells use, with the numbers they parse to
NumeralValue(s) ==
    CASE s = "7" -> 7
      [] s = "0" -> 0
      [] s = "-3" -> -3

Numerals == {"7", "0", "-3"}

\* pd.to_numeric(col, errors='coerce'), cell by cell: text that is no number,
\* a blank and NaN all become NaN
to_numeric(cell) ==
    CASE cell.k = "num" -> cell
      [] cell.k = "str" -> IF cell.s \in Numerals THEN Num(NumeralValue(cell.s)) ELSE NaN
      [] OTHER -> NaN

\* .fillna(0)
fillna0(cell) == IF IsNull(cell) THEN Num(0) ELSE cell

\* the date texts of the model, with the timestamps they parse to
DateTexts == {"2023-12-31", "2024-02-10", "2024-03-05", "2024-03-20"}

DateValue(s) ==
    CASE s = "2023-12-31" -> Date(2023, 12, 31)
      [] s = "2024-02-10" -> Date(2024, 2, 10)
      [] s = "2024-03-05" -> Date(2024, 3, 5)
      [] s = "2024-03-20" -> Date(2024, 3, 20)

\* pd.to_datetime(col, errors='coerce'), cell by cell
to_datetime(cell) ==
    CASE cell.k = "date" -> cell
      [] cell.k = "str" -> IF cell.s \in DateTexts THEN DateValue(cell.s) ELSE NaN
      [] OTHER -> NaN

DigitChar(d) ==
    CASE d = 0 -> "0" [] d = 1 -> "1" [] d = 2 -> "2" [] d = 3 -> "3" [] d = 4 -> "4"
      [] d = 5 -> "5" [] d = 6 -> "6" [] d = 7 -> "7" [] d = 8 -> "8" [] d = 9 -> "9"

\* str() of a monthly period: "YYYY-MM", and "NaT" for the missing period
PeriodMStr(cell) ==
    IF cell.k = "date"
    THEN Txt(<<DigitChar(cell.y \div 1000), DigitChar((cell.y \div 100) % 10),
               DigitChar((cell.y \div 10) % 10), DigitChar(cell.y % 10), "-",
               DigitChar(cell.m \div 10), DigitChar(cell.m % 10)>>)
    ELSE Txt(<<"N", "a", "T">>)

\* .dt.to_period('M').astype(str)
year_month(cell) == PeriodMStr(cell)

\* .dt.year and .dt.month: NaN for NaT
dt_year(cell) == IF cell.k = "date" THEN Num(cell.y) ELSE NaN

dt_month(cell) == IF cell.k = "date" THEN Num(cell.m) ELSE NaN

---------------------------------------------------------------------------
(* Sales frames *)

Frame(cols, rows) == [k |-> "frame", cols |-> cols, rows |-> rows]

\* df[c] = F(row), row by row: c is added when it is not a column yet
SetCol(df, c, F(_)) ==
    Frame(df.cols \cup {c},
          [i \in 1..Len(df.rows) |->
              [x \in df.cols \cup {c} |->
                  IF x = c THEN F(df.rows[i]) ELSE df.rows[i][x]]])

\* df[mask]: the rows that satisfy P, in order
FilterRows(df, P(_)) == Frame(df.cols, SelectSeq(df.rows, P))

\* .str.strip().str.upper().str.replace(' ', '_') on the headers the model uses
SalesHeader(h) ==
    CASE h = "Order Date" -> "ORDER_DATE"
      [] h = "Date" -> "DATE"
      [] h = " creation date" -> "CREATION_DATE"
      [] h = "Customer Id" -> "CUSTOMER_ID"
      [] h = "Customer Name" -> "CUSTOMER_NAME"
      [] h = "Sale Representative" -> "SALE_REPRESENTATIVE"
      [] h = "Status" -> "STATUS"
      [] h = "Total Values" -> "TOTAL_VALUES"
      [] h = "Total Commission" -> "TOTAL_COMMISSION"
      [] h = "Order Number" -> "ORDER_NUMBER"
      [] h = "Total Item" -> "TOTAL_ITEM"
      [] OTHER -> h

NormalizeSalesColumns(file) ==
    LET names == {SalesHeader(h) : h \in file.cols}
    IN  Frame(names,
              [i \in 1..Len(file.rows) |->
                  [c \in names |->
                      file.rows[i][CHOOSE h \in file.cols : SalesHeader(h) = c]]])

date_cols == <<"ORDER_DATE", "DATE", "CREATION_DATE">>

sales_numeric_cols == <<"TOTAL_ITEM", "TOTAL_VALUES", "TOTAL_COMMISSION">>

\* lines 38-43: the first candidate present is parsed and copied to ORDER_DATE
ParseOrderDate(df) ==
    LET present == {i \in 1..Len(date_cols) : date_cols[i] \in df.cols}
    IN  IF present = {} THEN df
        ELSE LET col == date_cols[CHOOSE i \in present : \A j \in present : i <= j]
                 parsed(row) == to_datetime(row[col])
                 df1 == SetCol(df, col, parsed)
                 copy(row) == row[col]
             IN  SetCol(df1, "ORDER_DATE", copy)

\* the coercion without its .fillna(0)
CoerceNumericCell_nofill(cell) == to_numeric(cell)

\* lines 48 and 82: one cell, coerced and filled
CoerceNumericCell(cell) == fillna0(to_numeric(cell))

RECURSIVE CoerceSalesNumeric(_, _)
CoerceSalesNumeric(df, i) ==
    IF i > Len(sales_numeric_cols) THEN df
    ELSE LET col == sales_numeric_cols[i]
             coerced(row) == CoerceNumericCell(row[col])
         IN  CoerceSalesNumeric(IF col \in df.cols THEN SetCol(df, col, coerced) ELSE df,
                                i + 1)

\* lines 50-53
DeriveCalendar(df) ==
    IF "ORDER_DATE" \in df.cols
    THEN LET ym(row) == year_month(row["ORDER_DATE"])
             yy(row) == dt_year(row["ORDER_DATE"])
             mm(row) == dt_month(row["ORDER_DATE"])
         IN  SetCol(SetCol(SetCol(df, "YEAR_MONTH", ym), "YEAR", yy), "MONTH", mm)
    ELSE df

load_sales_data(file) ==
    DeriveCalendar(CoerceSalesNumeric(ParseOrderDate(NormalizeSalesColumns(file)), 1))

---------------------------------------------------------------------------
(* SKU frames: columns in order, rows as sequences of cells *)

SkuFrame(cols, data) == [k |-> "frame", cols |-> cols, data |-> data]

Positions(cols, name) == {i \in 1..Len(cols) : cols[i] = name}

HasCol(df, name) == Positions(df.cols, name) # {}

\* df[name] is a Series only when one column carries the name
IsSeries(df, name) == Cardinality(Positions(df.cols, name)) = 1

CellAt(df, row, name) == row[CHOOSE i \in Positions(df.cols, name) : TRUE]

Column(df, name) == [i \in 1..Len(df.data) |-> CellAt(df, df.data[i], name)]

\* df[name] = F(row): overwrites the column, or appends it when it is new
SetSkuCol(df, name, F(_)) ==
    IF HasCol(df, name)
    THEN SkuFrame(df.cols,
                  [i \in 1..Len(df.data) |->
                      [j \in 1..Len(df.cols) |->
                          IF df.cols[j] = name THEN F(df.data[i]) ELSE df.data[i][j]]])
    ELSE SkuFrame(Append(df.cols, name),
                  [i \in 1..Len(df.data) |-> Append(df.data[i], F(df.data[i]))])

\* .str.strip().str.upper() on the headers the model uses
SkuHeader(h) ==
    CASE h = "matrix_order_id" -> "MATRIX_ORDER_ID"
      [] h = " creation_date" -> "CREATION_DATE"
      [] h = "order_lines/product/reference" -> "ORDER_LINES/PRODUCT/REFERENCE"
      [] h = "order_lines/product/name" -> "ORDER_LINES/PRODUCT/NAME"
      [] h = "order_lines/quantity" -> "ORDER_LINES/QUANTITY"
      [] h = "order_lines/unit_price" -> "ORDER_LINES/UNIT_PRICE"
      [] h = "order_lines/total" -> "ORDER_LINES/TOTAL"
      [] OTHER -> h

NormalizeSkuColumns(file) ==
    SkuFrame([i \in 1..Len(file.cols) |-> SkuHeader(file.cols[i])], file.data)

\* lines 66-74, in the dict's order
mapping ==
    << <<"MATRIX_ORDER_ID", "ORDER_ID">>,
       <<"CREATION_DATE", "ORDER_DATE">>,
       <<"ORDER_LINES/PRODUCT/REFERENCE", "SKU">>,
       <<"ORDER_LINES/PRODUCT/NAME", "PRODUCT_NAME">>,
       <<"ORDER_LINES/QUANTITY", "QUANTITY">>,
       <<"ORDER_LINES/UNIT_PRICE", "UNIT_PRICE">>,
       <<"ORDER_LINES/TOTAL", "LINE_TOTAL">> >>

\* lines 77-78: df.rename(columns={old: new}) when old is a column
RenameOne(cols, old, new) ==
    IF old \in Range(cols)
    THEN [i \in 1..Len(cols) |-> IF cols[i] = old THEN new ELSE cols[i]]
    ELSE cols

\* lines 76-78
RECURSIVE RenameFrom(_, _)
RenameFrom(cols, i) ==
    IF i > Len(mapping) THEN cols
    ELSE RenameFrom(RenameOne(cols, mapping[i][1], mapping[i][2]), i + 1)

RenameColumns(df) == SkuFrame(RenameFrom(df.cols, 1), df.data)

sku_numeric_cols == <<"QUANTITY", "UNIT_PRICE", "LINE_TOTAL">>

\* lines 80-82: pd.to_numeric raises TypeError when df[col] is a DataFrame
\* (two columns of that name)
RECURSIVE CoerceSkuNumeric(_, _)
CoerceSkuNumeric(df, i) ==
    IF i > Len(sku_numeric_cols) THEN df
    ELSE LET col == sku_numeric_cols[i]
             coerced(row) == CoerceNumericCell(CellAt(df, row, col))
         IN  IF ~HasCol(df, col) THEN CoerceSkuNumeric(df, i + 1)
             ELSE IF ~IsSeries(df, col) THEN Raised("TypeError", "to_numeric")
             ELSE CoerceSkuNumeric(SetSkuCol(df, col, coerced), i + 1)

\* Series.sum(): NaN is skipped
NumberOr0(cell) == IF cell.k = "num" THEN cell.n ELSE 0

ColumnSum(df, name) ==
    LET col == Column(df, name)
    IN  SumSeq([i \in 1..Len(col) |-> NumberOr0(col[i])])

\* the product of two cells of numeric columns: NaN when either is NaN
Times(a, b) == IF a.k = "num" /\ b.k = "num" THEN Num(a.n * b.n) ELSE NaN

\* a fallback taken row by row, wherever the row's own total is zero
LineTotalFallback_per_row(df) ==
    IF HasCol(df, "LINE_TOTAL") /\ HasCol(df, "QUANTITY") /\ HasCol(df, "UNIT_PRICE")
    THEN LET product(row) ==
                 IF CellAt(df, row, "LINE_TOTAL") = Num(0)
                 THEN Times(CellAt(df, row, "QUANTITY"), CellAt(df, row, "UNIT_PRICE"))
                 ELSE CellAt(df, row, "LINE_TOTAL")
         IN  SetSkuCol(df, "LINE_TOTAL", product)
    ELSE df

\* lines 84-86
LineTotalFallback(df) ==
    IF HasCol(df, "LINE_TOTAL") /\ ColumnSum(df, "LINE_TOTAL") = 0
    THEN IF HasCol(df, "QUANTITY") /\ HasCol(df, "UNIT_PRICE")
         THEN LET product(row) ==
                      Times(CellAt(df, row, "QUANTITY"), CellAt(df, row, "UNIT_PRICE"))
              IN  SetSkuCol(df, "LINE_TOTAL", product)
         ELSE df
    ELSE df

\* lines 88-90: pd.to_datetime of a DataFrame without year/month/day columns
\* (two ORDER_DATE columns) raises ValueError
SkuOrderDate(df) ==
    IF ~HasCol(df, "ORDER_DATE") THEN df
    ELSE IF ~IsSeries(df, "ORDER_DATE") THEN Raised("ValueError", "to_datetime")
    ELSE LET parsed(row) == to_datetime(CellAt(df, row, "ORDER_DATE"))
             df1 == SetSkuCol(df, "ORDER_DATE", parsed)
             ym(row) == year_month(CellAt(df1, row, "ORDER_DATE"))
         IN  SetSkuCol(df1, "YEAR_MONTH", ym)

load_sku_data(file) ==
    LET coerced == CoerceSkuNumeric(RenameColumns(NormalizeSkuColumns(file)), 1)
    IN  IF coerced.k = "raised" THEN coerced
        ELSE SkuOrderDate(LineTotalFallback(coerced))

---------------------------------------------------------------------------
(* Series operations *)

\* df[c], as the sequence of its cells
ColCells(df, c) == [i \in 1..Len(df.rows) |-> df.rows[i][c]]

\* Series.sum(): NaN is skipped, the empty sum is 0
SeriesSum(cells) == SumSeq([i \in 1..Len(cells) |-> NumberOr0(cells[i])])

\* Series.count(): the cells that are not null
SeriesCount(cells) == Cardinality({i \in 1..Len(cells) : ~IsNull(cells[i])})

\* Series.nunique(): the distinct values that are not null
SeriesNunique(cells) == Cardinality(Range(cells) \ {NaN})

\* Series.mean(): the sum over the count of the cells that are not null, NaN
\* when there is none
SeriesMean(cells) ==
    IF SeriesCount(cells) = 0 THEN NaN
    ELSE Ratio(SeriesSum(cells), SeriesCount(cells))

\* lines 94-102
calculate_metrics(df) ==
    [total_revenue |->
         IF "TOTAL_VALUES" \in df.cols THEN Num(SeriesSum(ColCells(df, "TOTAL_VALUES")))
         ELSE Num(0),
     total_orders |-> Len(df.rows),
     total_commission |->
         IF "TOTAL_COMMISSION" \in df.cols
         THEN Num(SeriesSum(ColCells(df, "TOTAL_COMMISSION")))
         ELSE Num(0),
     unique_customers |->
         IF "CUSTOMER_ID" \in df.cols THEN SeriesNunique(ColCells(df, "CUSTOMER_ID"))
         ELSE 0,
     avg_order_value |->
         IF "TOTAL_VALUES" \in df.cols THEN SeriesMean(ColCells(df, "TOTAL_VALUES"))
         ELSE Num(0),
     unique_reps |->
         IF "SALE_REPRESENTATIVE" \in df.cols
         THEN SeriesNunique(ColCells(df, "SALE_REPRESENTATIVE"))
         ELSE 0]

---------------------------------------------------------------------------
(* Filters, lines 148-175 *)

\* a <= b on the date components
DateLE(a, b) ==
    \/ a.y < b.y
    \/ a.y = b.y /\ a.m < b.m
    \/ a.y = b.y /\ a.m = b.m /\ a.d <= b.d

\* the dates of ORDER_DATE that are not NaT
ValidDates(df) == Range(ColCells(df, "ORDER_DATE")) \ {NaN}

\* lines 150-151; NaT.date() raises when the column holds no date at all
MinDate(df) == CHOOSE d \in ValidDates(df) : \A e \in ValidDates(df) : DateLE(d, e)

MaxDate(df) == CHOOSE d \in ValidDates(df) : \A e \in ValidDates(df) : DateLE(e, d)

\* lines 149, 159-161: a comparison with NaT is False, so a row without a date
\* never passes
DateFilter(df, range) ==
    IF "ORDER_DATE" \in df.cols /\ Len(range) = 2
    THEN LET in_range(row) ==
                 /\ ~IsNull(row["ORDER_DATE"])
                 /\ DateLE(range[1], row["ORDER_DATE"])
                 /\ DateLE(row["ORDER_DATE"], range[2])
         IN  FilterRows(df, in_range)
    ELSE df

\* .dropna().unique() of a label column, as the set of its labels
Labels(df, c) == {cell.s : cell \in Range(ColCells(df, c)) \ {NaN}}

\* lines 165 and 172: ['All'] + sorted(...), as a set
Options(df, c) == IF c \in df.cols THEN {"All"} \cup Labels(df, c) ELSE {}

\* lines 167-168 and 174-175
IsinFilter(df, c, selected) ==
    IF c \in df.cols /\ "All" \notin selected
    THEN LET isin(row) == ~IsNull(row[c]) /\ row[c].s \in selected
         IN  FilterRows(df, isin)
    ELSE df

RepFilter(df, selected) == IsinFilter(df, "SALE_REPRESENTATIVE", selected)

\* a status mask taken from the unfiltered frame and applied by position
StatusFilter_misaligned(df, selected) ==
    IF "STATUS" \in df.cols /\ "All" \notin selected
    THEN Frame(df.cols,
               SelectSeq([i \in 1..Len(df.rows) |->
                             IF /\ ~IsNull(df_sales.rows[i]["STATUS"])
                                /\ df_sales.rows[i]["STATUS"].s \in selected
                             THEN df.rows[i] ELSE NaN],
                         LAMBDA r : r # NaN))
    ELSE df

StatusFilter(df, selected) == IsinFilter(df, "STATUS", selected)

---------------------------------------------------------------------------
(* Grouped views *)

NotRun == [k |-> "notrun"]
Skipped == [k |-> "skipped"]
Table(rows) == [k |-> "table", rows |-> rows]
NoError == [k |-> "ok"]

Min2(a, b) == IF a <= b THEN a ELSE b

\* .head(n)
HeadN(s, n) == SubSeq(s, 1, Min2(n, Len(s)))

\* the rows of df whose cell under c is key
RowsOf(df, c, key) == FilterRows(df, LAMBDA row : row[c] = key)

\* groupby(c): one group per value that is not null
GroupKeys(df, c) == Range(ColCells(df, c)) \ {NaN}

\* the orders .sort_values('TOTAL_VALUES', ascending=False) may leave the groups
\* in: non-increasing, groups of equal revenue in any order
RECURSIVE ByTotalValuesDesc(_)
ByTotalValuesDesc(groups) ==
    IF groups = {} THEN {<<>>}
    ELSE UNION {{<<g>> \o t : t \in ByTotalValuesDesc(groups \ {g})} :
                g \in {x \in groups : \A y \in groups : y.TOTAL_VALUES <= x.TOTAL_VALUES}}

\* the same, sorted ascending
RECURSIVE ByTotalValuesAsc(_)
ByTotalValuesAsc(groups) ==
    IF groups = {} THEN {<<>>}
    ELSE UNION {{<<g>> \o t : t \in ByTotalValuesAsc(groups \ {g})} :
                g \in {x \in groups : \A y \in groups : x.TOTAL_VALUES <= y.TOTAL_VALUES}}

\* .sort_values('LINE_TOTAL', ascending=False)
RECURSIVE ByLineTotalDesc(_)
ByLineTotalDesc(groups) ==
    IF groups = {} THEN {<<>>}
    ELSE UNION {{<<g>> \o t : t \in ByLineTotalDesc(groups \ {g})} :
                g \in {x \in groups : \A y \in groups : y.LINE_TOTAL <= x.LINE_TOTAL}}

\* sorted() on the labels the model uses (code point order)
LabelRank(s) ==
    CASE s = "Amy" -> 1 [] s = "Bob" -> 2 [] s = "Cy" -> 3 [] s = "Dee" -> 4
      [] s = "Eve" -> 5 [] s = "Flo" -> 6 [] s = "Gus" -> 7 [] s = "Hal" -> 8
      [] s = "Ida" -> 9 [] s = "Jo" -> 10

\* line 215: groupby(...)['TOTAL_VALUES'].sum().nlargest(5): the largest first,
\* equal sums in the group order (the sorted labels)
RECURSIVE Nlargest(_, _)
Nlargest(groups, n) ==
    IF groups = {} \/ n = 0 THEN <<>>
    ELSE LET g == CHOOSE x \in groups : \A y \in groups :
                     \/ y.TOTAL_VALUES < x.TOTAL_VALUES
                     \/ /\ y.TOTAL_VALUES = x.TOTAL_VALUES
                        /\ LabelRank(x.SALE_REPRESENTATIVE.s) <= LabelRank(y.SALE_REPRESENTATIVE.s)
         IN  <<g>> \o Nlargest(groups \ {g}, n - 1)

\* line 215
OverviewTopN == 5

top_reps(df) ==
    Nlargest({[SALE_REPRESENTATIVE |-> key,
               TOTAL_VALUES |->
                   SeriesSum(ColCells(RowsOf(df, "SALE_REPRESENTATIVE", key), "TOTAL_VALUES"))] :
              key \in GroupKeys(df, "SALE_REPRESENTATIVE")},
             OverviewTopN)

\* lines 206-207: value_counts(), as the count of each status (its order is
\* not modelled)
status_data(df) ==
    [key \in GroupKeys(df, "STATUS") |-> Len(RowsOf(df, "STATUS", key).rows)]

\* lines 231-235: the aggregates of one representative's rows
RepGroups(df) ==
    {LET g == RowsOf(df, "SALE_REPRESENTATIVE", key)
     IN  [SALE_REPRESENTATIVE |-> key,
          TOTAL_VALUES |-> SeriesSum(ColCells(g, "TOTAL_VALUES")),
          ORDER_NUMBER |-> SeriesCount(ColCells(g, "ORDER_NUMBER")),
          CUSTOMER_ID |-> SeriesNunique(ColCells(g, "CUSTOMER_ID")),
          TOTAL_COMMISSION |-> SeriesSum(ColCells(g, "TOTAL_COMMISSION"))] :
     key \in GroupKeys(df, "SALE_REPRESENTATIVE")}

\* line 238
RepPerfColumns(g) ==
    [Rep |-> g.SALE_REPRESENTATIVE, Revenue |-> g.TOTAL_VALUES, Orders |-> g.ORDER_NUMBER,
     Customers |-> g.CUSTOMER_ID, Commission |-> g.TOTAL_COMMISSION]

\* the ranking sorted ascending before it is cut
rep_perf_ascending(df, n) ==
    {LET top == HeadN(sorted, n)
     IN  [i \in 1..Len(top) |-> RepPerfColumns(top[i])] :
     sorted \in ByTotalValuesAsc(RepGroups(df))}

\* lines 231-238: the tables the ranking may come out as
rep_perf(df, n) ==
    {LET top == HeadN(sorted, n)
     IN  [i \in 1..Len(top) |-> RepPerfColumns(top[i])] :
     sorted \in ByTotalValuesDesc(RepGroups(df))}

\* line 262: st.slider("Show Top N", 5, 30, 10, key='cust')
CustTopNDefault == 10

\* lines 264-266: a row belongs to a group when neither key is null
CustKeys(df) ==
    {k \in {<<row["CUSTOMER_ID"], row["CUSTOMER_NAME"]>> : row \in Range(df.rows)} :
        ~IsNull(k[1]) /\ ~IsNull(k[2])}

CustGroups(df) ==
    {LET g == FilterRows(df, LAMBDA row : /\ row["CUSTOMER_ID"] = key[1]
                                           /\ row["CUSTOMER_NAME"] = key[2])
     IN  [CUSTOMER_ID |-> key[1], CUSTOMER_NAME |-> key[2],
          TOTAL_VALUES |-> SeriesSum(ColCells(g, "TOTAL_VALUES")),
          ORDER_NUMBER |-> SeriesCount(ColCells(g, "ORDER_NUMBER"))] :
     key \in CustKeys(df)}

\* lines 264-269
cust_perf(df, n) ==
    {LET top == HeadN(sorted, n)
     IN  [i \in 1..Len(top) |->
             [ID |-> top[i].CUSTOMER_ID, Customer |-> top[i].CUSTOMER_NAME,
              Revenue |-> top[i].TOTAL_VALUES, Orders |-> top[i].ORDER_NUMBER]] :
     sorted \in ByTotalValuesDesc(CustGroups(df))}

\* the order of two strings, character by character (code points of the
\* characters a period string is made of)
CharCode(c) ==
    CASE c = "-" -> 45 [] c = "0" -> 48 [] c = "1" -> 49 [] c = "2" -> 50
      [] c = "3" -> 51 [] c = "4" -> 52 [] c = "5" -> 53 [] c = "6" -> 54
      [] c = "7" -> 55 [] c = "8" -> 56 [] c = "9" -> 57 [] c = "N" -> 78
      [] c = "T" -> 84 [] c = "a" -> 97

RECURSIVE CharsLess(_, _)
CharsLess(a, b) ==
    IF b = <<>> THEN FALSE
    ELSE IF a = <<>> THEN TRUE
    ELSE IF CharCode(Head(a)) # CharCode(Head(b)) THEN CharCode(Head(a)) < CharCode(Head(b))
    ELSE CharsLess(Tail(a), Tail(b))

\* groupby sorts its groups by key
RECURSIVE SortedKeys(_)
SortedKeys(keys) ==
    IF keys = {} THEN <<>>
    ELSE LET k == CHOOSE x \in keys : \A y \in keys \ {x} : CharsLess(x.c, y.c)
         IN  <<k>> \o SortedKeys(keys \ {k})

\* lines 331-336
monthly(df) ==
    LET keys == SortedKeys(GroupKeys(df, "YEAR_MONTH"))
    IN  [i \in 1..Len(keys) |->
            LET g == RowsOf(df, "YEAR_MONTH", keys[i])
            IN  [Month |-> keys[i],
                 Revenue |-> SeriesSum(ColCells(g, "TOTAL_VALUES")),
                 Orders |-> SeriesCount(ColCells(g, "ORDER_NUMBER"))]]

\* line 301: st.slider("Top N Products", 5, 20, 10, key='sku')
SkuTopNDefault == 10

\* lines 303-309: grouped by SKU, and by PRODUCT_NAME when it is there
SkuGroups(sku) ==
    LET named == HasCol(sku, "PRODUCT_NAME")
        keyOf(row) == IF named THEN <<CellAt(sku, row, "SKU"), CellAt(sku, row, "PRODUCT_NAME")>>
                      ELSE <<CellAt(sku, row, "SKU")>>
        keys == {k \in {keyOf(row) : row \in Range(sku.data)} :
                    \A i \in 1..Len(k) : ~IsNull(k[i])}
    IN  {LET rows == SelectSeq(sku.data, LAMBDA row : keyOf(row) = key)
         IN  [key |-> key,
              QUANTITY |-> SumSeq([i \in 1..Len(rows) |->
                                      NumberOr0(CellAt(sku, rows[i], "QUANTITY"))]),
              LINE_TOTAL |-> SumSeq([i \in 1..Len(rows) |->
                                        NumberOr0(CellAt(sku, rows[i], "LINE_TOTAL"))])] :
         key \in keys}

\* lines 293-310: the three tiles and the ranking
sku_perf(sku, n) ==
    {[revenue |-> ColumnSum(sku, "LINE_TOTAL"),
      units |-> ColumnSum(sku, "QUANTITY"),
      skus |-> Cardinality(Range(Column(sku, "SKU")) \ {NaN}),
      top |-> HeadN(sorted, n)] :
     sorted \in ByLineTotalDesc(SkuGroups(sku))}

\* the rows the page shows, -1 when it shows no frame
Shown(p) == IF p.k = "page" /\ p.df.k = "frame" THEN Len(p.df.rows) ELSE -1

---------------------------------------------------------------------------
(* main(), lines 105-354: one run of the script *)

\* the first statement of the run that raises, in the order the script reaches
\* them, or NoError
FirstRaise(df, sku) ==
    IF sku.k = "raised"
        THEN [stage |-> 1, raised |-> sku]
    ELSE IF "ORDER_DATE" \in df.cols /\ ValidDates(df) = {}
        THEN [stage |-> 2, raised |-> Raised("ValueError", "min_date")]
    ELSE IF "SALE_REPRESENTATIVE" \in df.cols /\ "TOTAL_VALUES" \notin df.cols
        THEN [stage |-> 3, raised |-> Raised("KeyError", "top_reps")]
    ELSE IF /\ "SALE_REPRESENTATIVE" \in df.cols
            /\ ~({"TOTAL_VALUES", "ORDER_NUMBER", "CUSTOMER_ID", "TOTAL_COMMISSION"}
                    \subseteq df.cols)
        THEN [stage |-> 4, raised |-> Raised("KeyError", "rep_perf")]
    ELSE IF /\ "CUSTOMER_ID" \in df.cols
            /\ ~({"CUSTOMER_NAME", "TOTAL_VALUES", "ORDER_NUMBER"} \subseteq df.cols)
        THEN [stage |-> 5, raised |-> Raised("KeyError", "cust_perf")]
    ELSE IF /\ sku.k = "frame"
            /\ HasCol(sku, "SKU")
            /\ ~(HasCol(sku, "LINE_TOTAL") /\ HasCol(sku, "QUANTITY"))
        THEN [stage |-> 6, raised |-> Raised("KeyError", "sku_perf")]
    ELSE IF /\ sku.k = "frame"
            /\ HasCol(sku, "SKU")
            /\ \/ ~IsSeries(sku, "SKU")
               \/ HasCol(sku, "PRODUCT_NAME") /\ ~IsSeries(sku, "PRODUCT_NAME")
        THEN [stage |-> 6, raised |-> Raised("TypeError", "sku_perf")]
    ELSE IF "YEAR_MONTH" \in df.cols /\ ~({"TOTAL_VALUES", "ORDER_NUMBER"} \subseteq df.cols)
        THEN [stage |-> 7, raised |-> Raised("KeyError", "monthly")]
    ELSE [stage |-> 8, raised |-> NoError]

\* a frame that replaces the cached one by what the last run showed
MainFrame_from_filtered(cached, shown) == IF shown.k = "frame" THEN shown ELSE cached

\* line 139: every run starts from what load_sales_data returns for the file
MainFrame(cached, shown) == cached

\* One run on the loaded frame df0 with the widgets' values; prev is the page
\* of the run before. A multiselect whose options changed since the last run
\* is a new widget and shows its default, ['All']. The result is the set of
\* outcomes the run may have (the rankings may order equal groups either way).
Main(df0, sku, range, reps, stats, n, prev) ==
    LET first == FirstRaise(df0, sku)
        ran(stage) == stage < first.stage
        df1 == DateFilter(df0, range)
        rep_options == Options(df1, "SALE_REPRESENTATIVE")
        reps1 == IF prev.k = "page" /\ prev.rep_options = rep_options THEN reps ELSE {"All"}
        df2 == RepFilter(df1, reps1)
        status_options == Options(df2, "STATUS")
        stats1 == IF prev.k = "page" /\ prev.status_options = status_options
                  THEN stats ELSE {"All"}
        df == StatusFilter(df2, stats1)
        View(stage, guard, value) ==
            IF ~ran(stage) THEN {NotRun}
            ELSE IF ~guard THEN {Skipped}
            ELSE {Table(rows) : rows \in value}
    IN  {[selected_reps |-> IF ran(2) THEN reps1 ELSE reps,
          selected_status |-> IF ran(2) THEN stats1 ELSE stats,
          page |->
              [k |-> "page",
               raised |-> first.raised,
               widgets |-> (IF ran(2) /\ "ORDER_DATE" \in df0.cols THEN {"date"} ELSE {})
                           \cup (IF ran(2) /\ "SALE_REPRESENTATIVE" \in df0.cols
                                 THEN {"reps"} ELSE {})
                           \cup (IF ran(2) /\ "STATUS" \in df0.cols THEN {"status"} ELSE {})
                           \cup (IF ran(3) /\ "SALE_REPRESENTATIVE" \in df0.cols
                                 THEN {"top_n"} ELSE {}),
               rep_options |-> IF ran(2) THEN rep_options ELSE {},
               status_options |-> IF ran(2) THEN status_options ELSE {},
               df |-> IF ran(2) THEN df ELSE NotRun,
               metrics |-> IF ran(2) THEN calculate_metrics(df) ELSE NotRun,
               status_data |-> IF ~ran(2) THEN NotRun
                               ELSE IF "STATUS" \in df.cols THEN Table(status_data(df))
                               ELSE Skipped,
               top_reps |-> IF ~ran(3) THEN NotRun
                            ELSE IF "SALE_REPRESENTATIVE" \in df.cols
                            THEN Table(top_reps(df))
                            ELSE Skipped,
               rep_perf |-> rp,
               cust_perf |-> cp,
               sku_perf |-> sp,
               monthly |-> IF ~ran(7) THEN NotRun
                           ELSE IF "YEAR_MONTH" \in df.cols THEN Table(monthly(df))
                           ELSE Skipped]] :
         rp \in View(4, "SALE_REPRESENTATIVE" \in df0.cols, rep_perf(df, n)),
         cp \in View(5, "CUSTOMER_ID" \in df0.cols, cust_perf(df, CustTopNDefault)),
         sp \in View(6, sku.k = "frame" /\ HasCol(sku, "SKU"), sku_perf(sku, SkuTopNDefault))}

\* line 229: st.slider("Show Top N", 5, 30, 10)
TopNMin == 5
TopNMax == 30
TopNDefault == 10

NoPage == [k |-> "none"]

\* line 140
LoadedSku(file) == IF file = NoFile THEN NotLoaded ELSE load_sku_data(file)

\* lines 152-157: the widget starts at (min_date, max_date)
DefaultDateRange(df) ==
    IF "ORDER_DATE" \in df.cols /\ ValidDates(df) # {}
    THEN <<MinDate(df), MaxDate(df)>>
    ELSE <<>>

\* the days the date widget offers: those of the model between min_date and
\* max_date
Calendar(df) ==
    {d \in {DateValue(t) : t \in DateTexts} : DateLE(MinDate(df), d) /\ DateLE(d, MaxDate(df))}

\* the values the date widget can take: one day (the user has picked the
\* start only) or a range
DateRanges(df) ==
    {<<a>> : a \in Calendar(df)}
    \cup {r \in Calendar(df) \X Calendar(df) : DateLE(r[1], r[2])}

\* the script runs again with the widgets' values
Rerun(range, reps, stats, n) ==
    \E out \in Main(MainFrame(df_sales, page.df), LoadedSku(sku_file), range, reps, stats, n,
                    page) :
        /\ df_sku' = LoadedSku(sku_file)
        /\ date_range' = range
        /\ selected_reps' = out.selected_reps
        /\ selected_status' = out.selected_status
        /\ top_n' = n
        /\ page' = out.page
        /\ shown_before' = Shown(page)

\* a sales file is uploaded and the script runs for the first time on it
UploadSales(files) ==
    /\ sales_file = NoFile
    /\ \E f \in files :
          LET df0 == load_sales_data(f)
          IN  /\ sales_file' = f
              /\ df_sales' = df0
              /\ \E out \in Main(df0, LoadedSku(sku_file), DefaultDateRange(df0), selected_reps,
                                 selected_status, top_n, page) :
                    /\ df_sku' = LoadedSku(sku_file)
                    /\ date_range' = DefaultDateRange(df0)
                    /\ selected_reps' = out.selected_reps
                    /\ selected_status' = out.selected_status
                    /\ page' = out.page
    /\ UNCHANGED <<sku_file, top_n, shown_before>>

\* a SKU file is uploaded; lines 124-135: without a sales file the run stops
\* before it loads anything
UploadSku(files) ==
    /\ sku_file = NoFile
    /\ \E f \in files :
          /\ sku_file' = f
          /\ IF sales_file = NoFile
             THEN UNCHANGED <<df_sku, date_range, selected_reps, selected_status, page,
                              shown_before>>
             ELSE \E out \in Main(MainFrame(df_sales, page.df), load_sku_data(f), date_range,
                                  selected_reps, selected_status, top_n, page) :
                      /\ df_sku' = load_sku_data(f)
                      /\ selected_reps' = out.selected_reps
                      /\ selected_status' = out.selected_status
                      /\ page' = out.page
                      /\ shown_before' = Shown(page)
                      /\ UNCHANGED date_range
    /\ UNCHANGED <<sales_file, df_sales, top_n>>

ChangeDateRange ==
    /\ page.k = "page"
    /\ "date" \in page.widgets
    /\ \E range \in DateRanges(df_sales) :
          /\ range # date_range
          /\ Rerun(range, selected_reps, selected_status, top_n)
    /\ UNCHANGED <<sales_file, sku_file, df_sales>>

ChangeReps ==
    /\ page.k = "page"
    /\ "reps" \in page.widgets
    /\ \E selected \in SUBSET page.rep_options :
          /\ selected # selected_reps
          /\ Rerun(date_range, selected, selected_status, top_n)
    /\ UNCHANGED <<sales_file, sku_file, df_sales>>

ChangeStatus ==
    /\ page.k = "page"
    /\ "status" \in page.widgets
    /\ \E selected \in SUBSET page.status_options :
          /\ selected # selected_status
          /\ Rerun(date_range, selected_reps, selected, top_n)
    /\ UNCHANGED <<sales_file, sku_file, df_sales>>

SlideTopN ==
    /\ page.k = "page"
    /\ "top_n" \in page.widgets
    /\ \E n \in TopNMin..Min2(TopNMax, MaxTopN) :
          /\ n # top_n
          /\ Rerun(date_range, selected_reps, selected_status, n)
    /\ UNCHANGED <<sales_file, sku_file, df_sales>>

\* the session before any file is uploaded: the widgets at their defaults
FreshSession ==
    /\ df_sales = NotLoaded
    /\ df_sku = NotLoaded
    /\ date_range = <<>>
    /\ selected_reps = {"All"}
    /\ selected_status = {"All"}
    /\ top_n = TopNDefault
    /\ page = NoPage
    /\ shown_before = -1

---------------------------------------------------------------------------
(* The loaders applied to bounded tables *)

\* the rows over a set of columns, each cell drawn from its column's cells
RowsOver(cols, Cells(_)) ==
    {r \in [cols -> UNION {Cells(c) : c \in cols}] : \A c \in cols : r[c] \in Cells(c)}

SalesLoadCells(h) ==
    CASE h = "Order Date" -> {Str("2024-03-05"), Str("soon"), NaN}
      [] h = "Date" -> {Str("2023-12-31"), NaN}
      [] h = " creation date" -> {Str("2024-02-10")}
      [] h = "Total Values" -> {Num(5), Str("n/a"), Str("7"), NaN}
      [] h = "Total Commission" -> {Num(1), NaN}
      [] h = "Total Item" -> {Num(3), Str("n/a")}
      [] OTHER -> {Str("Done")}

SalesLoadHeaders ==
    { {"Order Date", "Total Values"},
      {"Date", " creation date", "Total Item"},
      {"Order Date", "Date"},
      {"Total Values", "Status"},
      {" creation date", "Total Commission"} }

SalesLoadFiles ==
    UNION {{[cols |-> H, rows |-> rows] :
               rows \in SeqsUpTo(RowsOver(H, SalesLoadCells), MaxLoadRows)} :
           H \in SalesLoadHeaders}

SkuLoadCells(h) ==
    CASE h = "order_lines/quantity" -> {Num(2), Str("n/a"), Str("7")}
      [] h = "QUANTITY" -> {Num(2), Str("n/a")}
      [] h = "order_lines/unit_price" -> {Num(5)}
      [] h = "UNIT_PRICE" -> {Num(5), NaN}
      [] h = "order_lines/total" -> {Num(0), Num(10), Num(-10), NaN}
      [] h = "LINE_TOTAL" -> {Num(0), Num(10), Num(-10)}
      [] h \in {"ORDER_DATE", " creation_date"} -> {Str("2024-03-05"), NaN}
      [] h = "SKU" -> {Str("A"), Str("B")}
      [] OTHER -> {Str("A")}

\* the rows over a sequence of SKU columns
RECURSIVE SkuRowsOver(_)
SkuRowsOver(cols) ==
    IF cols = <<>> THEN {<<>>}
    ELSE {<<x>> \o t : x \in SkuLoadCells(Head(cols)), t \in SkuRowsOver(Tail(cols))}

SkuLoadHeaders ==
    { <<"order_lines/product/reference", "order_lines/quantity",
        "order_lines/unit_price", "order_lines/total">>,
      <<"QUANTITY", "UNIT_PRICE", "LINE_TOTAL">>,
      <<"QUANTITY", "LINE_TOTAL", "ORDER_DATE">>,
      <<"SKU", "order_lines/product/reference", "LINE_TOTAL">>,
      <<"ORDER_DATE", " creation_date", "SKU">>,
      <<"QUANTITY", "order_lines/quantity">>,
      <<"matrix_order_id", " creation_date", "order_lines/product/name",
        "order_lines/total">> }

SkuLoadFiles ==
    UNION {{[cols |-> H, data |-> data] :
               data \in SeqsUpTo(SkuRowsOver(H), MaxLoadRows)} :
           H \in SkuLoadHeaders}

InitLoad ==
    /\ FreshSession
    /\ \/ sales_file \in SalesLoadFiles /\ sku_file = NoFile
       \/ sales_file = NoFile /\ sku_file \in SkuLoadFiles

LoadSalesData ==
    /\ sales_file # NoFile
    /\ df_sales = NotLoaded
    /\ df_sales' = load_sales_data(sales_file)
    /\ UNCHANGED <<sales_file, sku_file, df_sku, date_range, selected_reps,
                   selected_status, top_n, page, shown_before>>

LoadSkuData ==
    /\ sku_file # NoFile
    /\ df_sku = NotLoaded
    /\ df_sku' = load_sku_data(sku_file)
    /\ UNCHANGED <<sales_file, sku_file, df_sales, date_range, selected_reps,
                   selected_status, top_n, page, shown_before>>

NextLoad == LoadSalesData \/ LoadSkuData

SpecLoad == InitLoad /\ [][NextLoad]_vars

---------------------------------------------------------------------------
(* The dashboard on bounded uploads *)

RawRow(date, rep, status, value, commission, number, customer, name) ==
    [h \in {"Order Date", "Sale Representative", "Status", "Total Values",
            "Total Commission", "Order Number", "Customer Id", "Customer Name"} |->
        CASE h = "Order Date" -> date
          [] h = "Sale Representative" -> rep
          [] h = "Status" -> status
          [] h = "Total Values" -> value
          [] h = "Total Commission" -> commission
          [] h = "Order Number" -> number
          [] h = "Customer Id" -> customer
          [] h = "Customer Name" -> name]

\* the rows a dashboard upload is made of
DashRows ==
    << RawRow(Str("2024-02-10"), Str("Amy"), Str("Done"), Num(200), Num(20), Num(1),
              Str("c1"), Str("Ace")),
       RawRow(Str("2024-03-05"), Str("Bob"), Str("Done"), Num(50), Num(5), Num(2),
              Str("c2"), Str("Bolt")),
       RawRow(Str("2024-03-20"), Str("Bob"), Str("Open"), Num(150), NaN, NaN,
              Str("c1"), Str("Ace")),
       RawRow(NaN, Str("Amy"), Str("Open"), Str("n/a"), Num(1), Num(4), NaN, NaN),
       RawRow(Str("2024-03-05"), NaN, NaN, Num(100), Num(10), Num(5),
              Str("c2"), Str("Bolt")) >>

DashFiles ==
    {[cols |-> DOMAIN DashRows[1], rows |-> rows] : rows \in SubSeqsUpTo(DashRows, MaxRows)}

InitDash ==
    /\ sales_file = NoFile
    /\ sku_file = NoFile
    /\ FreshSession

NextDash == UploadSales(DashFiles) \/ ChangeDateRange \/ ChangeReps \/ ChangeStatus

SpecDash == InitDash /\ [][NextDash]_vars

---------------------------------------------------------------------------
(* The representative ranking on bounded uploads *)

\* the rows a ranking upload is made of: eight representatives, one of them
\* on two rows, three of them with the same revenue, a value that does not
\* parse, and a row without a representative
RankRows ==
    << RawRow(Str("2024-03-05"), Str("Amy"), Str("Done"), Num(300), Num(30), Num(1),
              Str("c1"), Str("Ace")),
       RawRow(Str("2024-03-05"), Str("Amy"), Str("Done"), Num(40), Num(4), Num(2),
              Str("c2"), Str("Bolt")),
       RawRow(Str("2024-03-05"), Str("Bob"), Str("Done"), Num(200), Num(20), Num(3),
              Str("c1"), Str("Ace")),
       RawRow(Str("2024-03-05"), Str("Cy"), Str("Done"), Num(100), Num(10), Num(4),
              Str("c1"), Str("Ace")),
       RawRow(Str("2024-03-05"), Str("Dee"), Str("Done"), Num(100), Num(10), Num(5),
              Str("c2"), Str("Bolt")),
       RawRow(Str("2024-03-05"), Str("Eve"), Str("Done"), Str("n/a"), Num(1), Num(6),
              Str("c1"), Str("Ace")),
       RawRow(Str("2024-03-05"), Str("Flo"), Str("Done"), Num(50), Num(5), Num(7),
              Str("c1"), Str("Ace")),
       RawRow(Str("2024-03-05"), Str("Gus"), Str("Done"), Num(250), Num(25), Num(8),
              Str("c2"), Str("Bolt")),
       RawRow(Str("2024-03-05"), Str("Hal"), Str("Done"), Num(100), Num(10), Num(9),
              Str("c1"), Str("Ace")),
       RawRow(Str("2024-03-05"), NaN, Str("Done"), Num(900), Num(90), Num(10),
              Str("c2"), Str("Bolt")) >>

RankFiles ==
    {[cols |-> DOMAIN RankRows[1], rows |-> rows] : rows \in SubSeqsUpTo(RankRows, MaxRankRows)}

NextRank == UploadSales(RankFiles) \/ SlideTopN

SpecRank == InitDash /\ [][NextRank]_vars

---------------------------------------------------------------------------
(* The dashboard on uploads that lack columns *)

\* a sales table with every expected column
ColRows ==
    << RawRow(Str("2024-02-10"), Str("Amy"), Str("Done"), Num(200), Num(20), Num(1),
              Str("c1"), Str("Ace")),
       RawRow(Str("2024-03-05"), Str("Bob"), Str("Open"), Num(50), Num(5), Num(2),
              Str("c2"), Str("Bolt")) >>

\* that table with any subset of its columns
ColFiles ==
    {[cols |-> H, rows |-> [i \in 1..Len(ColRows) |-> [h \in H |-> ColRows[i][h]]]] :
     H \in SUBSET DOMAIN ColRows[1]}

\* a SKU table with every column the product view reads
SkuColHeader == <<"SKU", "PRODUCT_NAME", "QUANTITY", "LINE_TOTAL">>

SkuColData == << <<Str("A"), Str("Nut"), Num(2), Num(10)>>,
                 <<Str("B"), Str("Bolt"), Num(1), Num(5)>> >>

\* the positions kept when some columns are left out
KeptPositions ==
    SubSeqsUpTo([j \in 1..Len(SkuColHeader) |-> j], Len(SkuColHeader))

\* that table with any subset of its columns
SkuColFiles ==
    {[cols |-> [j \in 1..Len(p) |-> SkuColHeader[p[j]]],
      data |-> [i \in 1..Len(SkuColData) |-> [j \in 1..Len(p) |-> SkuColData[i][p[j]]]]] :
     p \in KeptPositions}

NextCols == UploadSales(ColFiles) \/ UploadSku(SkuColFiles)

SpecCols == InitDash /\ [][NextCols]_vars

---------------------------------------------------------------------------
(* Properties of the dashboard *)

\* C1: the metrics of a filtered set with no rows that has TOTAL_VALUES,
\* CUSTOMER_ID and SALE_REPRESENTATIVE are revenue 0, orders 0, customers 0 and
\* an average order value that is the number 0.
C1_EmptyMetricsAreZero ==
    (/\ page.k = "page"
     /\ page.df.k = "frame"
     /\ page.df.rows = <<>>
     /\ {"TOTAL_VALUES", "CUSTOMER_ID", "SALE_REPRESENTATIVE"} \subseteq page.df.cols) =>
        /\ page.metrics.total_revenue = Num(0)
        /\ page.metrics.total_orders = 0
        /\ page.metrics.unique_customers = 0
        /\ page.metrics.avg_order_value = Num(0)

FilterBy(name, df) ==
    CASE name = "date" -> DateFilter(df, date_range)
      [] name = "rep" -> RepFilter(df, selected_reps)
      [] name = "status" -> StatusFilter(df, selected_status)

FilterOrders ==
    {o \in [1..3 -> {"date", "rep", "status"}] : \A i, j \in 1..3 : i # j => o[i] # o[j]}

\* C4: the date, representative and status predicates of the current
\* selection, applied to the loaded set in any of the six orders, give the set
\* the page shows.
C4_FiltersCommute ==
    (page.k = "page" /\ page.df.k = "frame") =>
        \A o \in FilterOrders :
            FilterBy(o[3], FilterBy(o[2], FilterBy(o[1], df_sales))) = page.df

\* all three predicates are active, each of them alone removes a row of the
\* loaded set, and rows remain
C4_Witness ==
    /\ page.k = "page"
    /\ page.df.k = "frame"
    /\ Len(date_range) = 2
    /\ "All" \notin selected_reps
    /\ "All" \notin selected_status
    /\ \A name \in {"date", "rep", "status"} :
          Len(FilterBy(name, df_sales).rows) < Len(df_sales.rows)
    /\ page.df.rows # <<>>

\* C6: the monthly trend has one row per YEAR_MONTH value of the filtered set,
\* in strictly ascending order, with the sum of TOTAL_VALUES and the number of
\* rows of that month.
C6_MonthlyTrendCountsRows ==
    (page.k = "page" /\ page.monthly.k = "table") =>
        LET trend == page.monthly.rows
            months == Range(ColCells(page.df, "YEAR_MONTH")) \ {NaN}
            of(month) == RowsOf(page.df, "YEAR_MONTH", month)
        IN  /\ Len(trend) = Cardinality(months)
            /\ {trend[i].Month : i \in 1..Len(trend)} = months
            /\ \A i \in 1..Len(trend) - 1 : CharsLess(trend[i].Month.c, trend[i + 1].Month.c)
            /\ \A i \in 1..Len(trend) :
                  /\ trend[i].Revenue = SeriesSum(ColCells(of(trend[i].Month), "TOTAL_VALUES"))
                  /\ trend[i].Orders = Len(of(trend[i].Month).rows)

\* a row passes the current selection
Admitted(row) ==
    /\ ("ORDER_DATE" \in df_sales.cols /\ Len(date_range) = 2) =>
          /\ row["ORDER_DATE"].k = "date"
          /\ DateLE(date_range[1], row["ORDER_DATE"])
          /\ DateLE(row["ORDER_DATE"], date_range[2])
    /\ ("SALE_REPRESENTATIVE" \in df_sales.cols /\ "All" \notin selected_reps) =>
          /\ row["SALE_REPRESENTATIVE"].k = "str"
          /\ row["SALE_REPRESENTATIVE"].s \in selected_reps
    /\ ("STATUS" \in df_sales.cols /\ "All" \notin selected_status) =>
          /\ row["STATUS"].k = "str"
          /\ row["STATUS"].s \in selected_status

\* C10: after every interaction the loaded set is still what load_sales_data
\* gives for the file, and the set shown is exactly the rows of the loaded set
\* the current selection admits, whatever was selected before.
C10_ShownIsLoadedSetUnderCurrentSelection ==
    page.k = "page" =>
        /\ df_sales = load_sales_data(sales_file)
        /\ page.df.k = "frame" =>
              /\ page.df.cols = df_sales.cols
              /\ page.df.rows = SelectSeq(df_sales.rows, Admitted)

\* a selection was widened back to everything after a narrower one: the run
\* before showed fewer rows, this one shows every row that has a date
C10_Witness ==
    /\ page.k = "page"
    /\ page.df.k = "frame"
    /\ shown_before >= 0
    /\ shown_before < Len(page.df.rows)
    /\ date_range = DefaultDateRange(df_sales)
    /\ "All" \in selected_reps
    /\ "All" \in selected_status
    /\ Len(page.df.rows) >= 2
    /\ Len(page.df.rows) = Cardinality({i \in 1..Len(df_sales.rows) :
                                          df_sales.rows[i]["ORDER_DATE"].k = "date"})

\* C5: the representative ranking has min(N, number of distinct non-null
\* representatives) rows, one per representative, each with the sum of
\* TOTAL_VALUES over that representative's rows, in non-increasing order of
\* that sum, and no representative left out has a larger sum than one listed.
C5_RankingIsTopNByRevenue ==
    (page.k = "page" /\ page.rep_perf.k = "table") =>
        LET ranking == page.rep_perf.rows
            rows == page.df.rows
            reps == {rows[i]["SALE_REPRESENTATIVE"] : i \in 1..Len(rows)} \ {NaN}
            Revenue(rep) ==
                SumSeq([i \in 1..Len(rows) |->
                           IF rows[i]["SALE_REPRESENTATIVE"] = rep
                           THEN rows[i]["TOTAL_VALUES"].n ELSE 0])
            listed == {ranking[i].Rep : i \in 1..Len(ranking)}
        IN  /\ Len(ranking) = Min2(top_n, Cardinality(reps))
            /\ listed \subseteq reps
            /\ Cardinality(listed) = Len(ranking)
            /\ \A i \in 1..Len(ranking) : ranking[i].Revenue = Revenue(ranking[i].Rep)
            /\ \A i \in 1..Len(ranking) - 1 : ranking[i].Revenue >= ranking[i + 1].Revenue
            /\ \A out \in reps \ listed : \A i \in 1..Len(ranking) :
                  Revenue(out) <= ranking[i].Revenue

\* the slider was moved to 5 on a set with more than 5 representatives: the
\* ranking is cut, a representative with two rows is listed, a representative
\* left out has the revenue of the last one listed, and the set has a row
\* without a representative
C5_Witness ==
    /\ page.k = "page"
    /\ page.rep_perf.k = "table"
    /\ top_n = TopNMin
    /\ Len(page.rep_perf.rows) = TopNMin
    /\ Cardinality(GroupKeys(page.df, "SALE_REPRESENTATIVE")) > TopNMin
    /\ \E i \in 1..TopNMin :
          Len(RowsOf(page.df, "SALE_REPRESENTATIVE", page.rep_perf.rows[i].Rep).rows) = 2
    /\ \E g \in RepGroups(page.df) :
          /\ g.SALE_REPRESENTATIVE \notin {page.rep_perf.rows[i].Rep : i \in 1..TopNMin}
          /\ g.TOTAL_VALUES = page.rep_perf.rows[TopNMin].Revenue
    /\ \E i \in 1..Len(page.df.rows) : page.df.rows[i]["SALE_REPRESENTATIVE"] = NaN

\* C9: with any subset of the expected sales columns (and of the SKU columns)
\* present, a run of the script raises nothing: a view whose columns are
\* missing is skipped.
C9_MissingColumnsRaiseNothing ==
    page.k = "page" => page.raised = NoError

---------------------------------------------------------------------------
(* Properties of the loaders *)

\* the number a raw cell stands for: its value when it parses, 0 otherwise
ParsedNumber(cell) ==
    IF cell.k = "num" THEN cell.n
    ELSE IF cell.k = "str" /\ cell.s \in Numerals THEN NumeralValue(cell.s)
    ELSE 0

\* the raw cell of row i under the column that ends up named name
RawSkuCell(i, name) ==
    sku_file.data[i][CHOOSE j \in 1..Len(df_sku.cols) : df_sku.cols[j] = name]

SalesNumericKept ==
    df_sales.k = "frame" =>
        /\ Len(df_sales.rows) = Len(sales_file.rows)
        /\ \A h \in sales_file.cols :
              SalesHeader(h) \in Range(sales_numeric_cols) =>
                  \A i \in 1..Len(sales_file.rows) :
                      df_sales.rows[i][SalesHeader(h)]
                          = Num(ParsedNumber(sales_file.rows[i][h]))

SkuNumericKept(names) ==
    df_sku.k = "frame" =>
        /\ Len(df_sku.data) = Len(sku_file.data)
        /\ \A j \in 1..Len(sku_file.cols) :
              df_sku.cols[j] \in names =>
                  \A i \in 1..Len(sku_file.data) :
                      df_sku.data[i][j] = Num(ParsedNumber(sku_file.data[i][j]))

\* the coerced LINE_TOTAL column sums to 0 and QUANTITY and UNIT_PRICE are there
FallbackApplies ==
    /\ {"LINE_TOTAL", "QUANTITY", "UNIT_PRICE"} \subseteq Range(df_sku.cols)
    /\ SumSeq([i \in 1..Len(sku_file.data) |->
                  ParsedNumber(RawSkuCell(i, "LINE_TOTAL"))]) = 0

C3_LineTotalFallbackIsTableWide ==
    (df_sku.k = "frame" /\ "LINE_TOTAL" \in Range(df_sku.cols)) =>
        LET total == SumSeq([i \in 1..Len(sku_file.data) |->
                                ParsedNumber(RawSkuCell(i, "LINE_TOTAL"))])
            out(i) == CellAt(df_sku, df_sku.data[i], "LINE_TOTAL")
        IN  /\ (total = 0 /\ {"QUANTITY", "UNIT_PRICE"} \subseteq Range(df_sku.cols)) =>
                  \A i \in 1..Len(sku_file.data) :
                      out(i) = Num(ParsedNumber(RawSkuCell(i, "QUANTITY"))
                                   * ParsedNumber(RawSkuCell(i, "UNIT_PRICE")))
            /\ total # 0 =>
                  \A i \in 1..Len(sku_file.data) :
                      out(i) = Num(ParsedNumber(RawSkuCell(i, "LINE_TOTAL")))

\* the fallback replaced populated totals that cancel out (10 and -10) by
\* QUANTITY x UNIT_PRICE
C3_Witness ==
    /\ df_sku.k = "frame"
    /\ FallbackApplies
    /\ Len(sku_file.data) = 2
    /\ RawSkuCell(1, "LINE_TOTAL") = Num(10)
    /\ RawSkuCell(2, "LINE_TOTAL") = Num(-10)
    /\ CellAt(df_sku, df_sku.data[1], "LINE_TOTAL") = Num(10)
    /\ CellAt(df_sku, df_sku.data[2], "LINE_TOTAL") = Num(35)

\* C7: the table load_sku_data returns never has two columns of the same name
\* (no raw column is renamed onto a canonical column that is already there).
C7_RenameNeverDuplicatesAColumn ==
    df_sku.k = "frame" =>
        \A i, j \in 1..Len(df_sku.cols) : i # j => df_sku.cols[i] # df_sku.cols[j]

\* C8: in every table load_sales_data returns with ORDER_DATE, a row whose
\* ORDER_DATE is null has null YEAR_MONTH, YEAR and MONTH, and a row with a
\* date has its "YYYY-MM" string, its year and its month (1..12).
C8_NullDateHasNoCalendarFields ==
    (df_sales.k = "frame" /\ "ORDER_DATE" \in df_sales.cols) =>
        \A i \in 1..Len(df_sales.rows) :
            LET r == df_sales.rows[i]
            IN  IF IsNull(r["ORDER_DATE"])
                THEN IsNull(r["YEAR_MONTH"]) /\ IsNull(r["YEAR"]) /\ IsNull(r["MONTH"])
                ELSE /\ r["YEAR_MONTH"] = PeriodMStr(r["ORDER_DATE"])
                     /\ Len(r["YEAR_MONTH"].c) = 7
                     /\ r["YEAR"] = Num(r["ORDER_DATE"].y)
                     /\ r["MONTH"] = Num(r["ORDER_DATE"].m)
                     /\ r["MONTH"].n \in 1..12

====
